---- MODULE Spec2Model ----
(***************************************************************************)
(* Orbit sampling and animation-frame generation of the Celestial Orbit    *)
(* Visualizer: the static Plotly script (src/simulator.py) and the Dash    *)
(* application (src/unnamed/part_000, "dash simulation.py").               *)
(*                                                                         *)
(* Numbers.  The scripts compute in IEEE doubles; the model computes in    *)
(* integers that stay below 2^31:                                          *)
(*   lengths        whole kilometres                                       *)
(*   period         whole seconds                                          *)
(*   time offsets   milliseconds                                           *)
(*   angles         1/10000 radian                                         *)
(*   sines, cosines 1/10000                                                *)
(*   eccentricity   1/1000                                                 *)
(* Divisions round towards minus infinity, so a modelled value is close to *)
(* the script's value, not equal to it: periods agree with double          *)
(* precision to 2 s, time offsets to about 1 s, positions to 4 km.         *)
(***************************************************************************)
EXTENDS Integers, Sequences, FiniteSets, TLC

VARIABLES
    program,                \* "static": simulator.py, "dash": the Dash app
    sma_slider,             \* value of 'sma-slider' (0 in the static script)
    earth_size_slider,      \* value of 'earth-size-slider'
    satellite_size_slider,  \* value of 'satellite-size-slider'
    trajectory,             \* period, time_span, propagated_positions last computed
    graph,                  \* the figure the browser displays
    played,                 \* number of frames the running playback has applied
    earth_active,           \* active button of the Earth-size dropdown
    satellite_active,       \* active button of the satellite-size dropdown
    inv,                    \* update_orbit invocations in flight, per worker
    posted                  \* number of callback requests the page has posted

vars == <<program, sma_slider, earth_size_slider, satellite_size_slider,
          trajectory, graph, played, earth_active, satellite_active, inv,
          posted>>

sliders == <<sma_slider, earth_size_slider, satellite_size_slider>>
server == <<inv, posted>>
menus == <<earth_active, satellite_active>>

(***************************************************************************)
(* Fixed-point arithmetic standing for numpy / poliastro floating point.   *)
(***************************************************************************)
Scale == 10000
Pi == 31416
TwoPi == 62832
HalfPi == 15708

Abs(x) == IF x < 0 THEN -x ELSE x

\* Largest r with r*r <= n, for 0 <= n < 2^30, found bit by bit.
RECURSIVE ISqrtFrom(_, _, _)
ISqrtFrom(n, r, b) ==
    IF b = 0 THEN r
    ELSE IF (r + b) * (r + b) <= n THEN ISqrtFrom(n, r + b, b \div 2)
         ELSE ISqrtFrom(n, r, b \div 2)

ISqrt(n) == ISqrtFrom(n, 0, 16384)

\* floor(x * y / d) for 0 <= x, 0 <= y, 0 < d, computed without forming x*y.
MulDiv(x, y, d) == (x \div d) * y + ((x % d) * y) \div d

\* sin of an angle in [0, HalfPi], by its Taylor series to the x^9 term.
SinQuadrant(x) ==
    LET y  == (x * x) \div Scale
        t4 == Scale - y \div 72
        t3 == Scale - (y * t4) \div (42 * Scale)
        t2 == Scale - (y * t3) \div (20 * Scale)
        t1 == Scale - (y * t2) \div (6 * Scale)
    IN  (x * t1) \div Scale

\* sin of any angle: reduced to [0, TwoPi), then to the first quadrant.
Sin(x) ==
    LET r == x % TwoPi
    IN  IF r <= HalfPi THEN SinQuadrant(r)
        ELSE IF r <= Pi THEN SinQuadrant(Pi - r)
        ELSE IF r <= Pi + HalfPi THEN -SinQuadrant(r - Pi)
        ELSE -SinQuadrant(TwoPi - r)

\* cos of an angle in [0, HalfPi], by its Taylor series to the x^10 term.
CosQuadrant(x) ==
    LET y  == (x * x) \div Scale
        t5 == Scale - y \div 90
        t4 == Scale - (y * t5) \div (56 * Scale)
        t3 == Scale - (y * t4) \div (30 * Scale)
        t2 == Scale - (y * t3) \div (12 * Scale)
    IN  Scale - (y * t2) \div (2 * Scale)

Cos(x) ==
    LET r == x % TwoPi
    IN  IF r <= HalfPi THEN CosQuadrant(r)
        ELSE IF r <= Pi THEN -CosQuadrant(Pi - r)
        ELSE IF r <= Pi + HalfPi THEN -CosQuadrant(r - Pi)
        ELSE CosQuadrant(TwoPi - r)

(***************************************************************************)
(* Program constants.                                                      *)
(***************************************************************************)
\* poliastro.bodies.Earth: equatorial radius (km) and gravitational
\* parameter (km^3/s^2), to the kilometre.
EarthR == 6378
EarthK == 398600

\* src/simulator.py, module level.
alt_perigee == 700
eccentricity == 100
inclination == 45

\* src/unnamed/part_000, module level.
default_eccentricity == 100
default_inclination == 45
default_sma == 7078

\* num= of both np.linspace calls.
NumSamples == 100

(***************************************************************************)
(* Orbit.from_classical, orbit.period, np.linspace, orbit.propagate(t).r   *)
(***************************************************************************)
\* Orbit.from_classical(Earth, a, ecc, inc, raan=0, argp=0, nu=0).  Neither
\* script compares a with Earth.R or tests ecc before or after the call.
create_orbit(sma, ecc, inc) ==
    [a |-> sma, ecc |-> ecc, inc |-> inc, raan |-> 0, argp |-> 0, nu |-> 0]

\* 4*pi^2 in thousandths.
FourPiSq == (Pi * Pi) \div 25000

\* A period that grows with a instead of a^(3/2).
period_of_linear(orbit) ==
    ISqrt(MulDiv((orbit.a * orbit.a) \div 100, FourPiSq, 1000))

\* orbit.period.to(u.s).value: 2*pi*sqrt(a^3 / k), whole seconds.
period_of(orbit) ==
    LET a2 == (orbit.a * orbit.a) \div 100
        q  == MulDiv(a2, orbit.a, EarthK \div 100)
    IN  ISqrt(MulDiv(q, FourPiSq, 1000))

\* A linspace that returns one value too few.
linspace_short(start, stop, num) ==
    [i \in 1..(num - 1) |-> start + ((i - 1) * (stop - start)) \div (num - 1)]

\* np.linspace(start, stop, num), endpoint=True: num values start + i*step,
\* step = (stop - start)/(num - 1), the last one overwritten with stop.
linspace(start, stop, num) ==
    [i \in 1..num |->
        IF num > 1 /\ i = num THEN stop
        ELSE IF num > 1 THEN start + ((i - 1) * (stop - start)) \div (num - 1)
        ELSE start]

\* The offsets of endpoint=False: the period itself is not sampled.
time_span_open(period) ==
    [i \in 1..NumSamples |-> ((i - 1) * period * 1000) \div NumSamples]

\* np.linspace(0, period, num=100) * u.s, in milliseconds.
time_span_of(period) == linspace(0, period * 1000, NumSamples)

\* Mean anomaly n*t = 2*pi*t/period of an orbit with nu = 0 at t = 0,
\* t in milliseconds: floor(TwoPi * t / (1000 * period)).
MeanAnomaly(orbit, t) ==
    LET T  == period_of(orbit)
        ts == t \div 1000
        tm == t % 1000
        n1 == TwoPi * ts
    IN  n1 \div T + ((n1 % T) * 1000 + TwoPi * tm) \div (1000 * T)

\* Kepler's equation E - ecc*sin(E) = M, by fixed-point iteration from E = M.
RECURSIVE KeplerIter(_, _, _, _)
KeplerIter(M, ecc, E, k) ==
    IF k = 0 THEN E
    ELSE KeplerIter(M, ecc, M + (ecc * Sin(E)) \div 1000, k - 1)

EccentricAnomaly(M, ecc) == KeplerIter(M, ecc, M, 5)

\* orbit.propagate(t).r: perifocal position (a(cos E - e), a sqrt(1-e^2) sin E)
\* turned about the x axis by the inclination (raan = argp = 0), whole km.
propagate_r(orbit, t) ==
    LET E    == EccentricAnomaly(MeanAnomaly(orbit, t) % TwoPi, orbit.ecc)
        b    == ISqrt((1000000 - orbit.ecc * orbit.ecc) * 100)
        i    == (orbit.inc * Pi) \div 180
        q    == (((orbit.a * Sin(E)) \div 1000) * b) \div Scale
    IN  << (orbit.a * (Cos(E) - orbit.ecc * 10)) \div Scale,
           (q * Cos(i)) \div (Scale * 10),
           (q * Sin(i)) \div (Scale * 10) >>

\* [orbit.propagate(t).r for t in time_span]
propagated_positions_of(orbit, time_span) ==
    [i \in 1..Len(time_span) |-> propagate_r(orbit, time_span[i])]

\* period = orbit.period...; time_span = np.linspace(...);
\* propagated_positions = [...]: what both scripts compute from an orbit.
trajectory_of(orbit) ==
    LET period    == period_of(orbit)
        time_span == time_span_of(period)
    IN  [orbit     |-> orbit,
         period    |-> period,
         time_span |-> time_span,
         positions |-> propagated_positions_of(orbit, time_span)]

x_vals_of(positions) == [i \in 1..Len(positions) |-> positions[i][1]]
y_vals_of(positions) == [i \in 1..Len(positions) |-> positions[i][2]]
z_vals_of(positions) == [i \in 1..Len(positions) |-> positions[i][3]]

(***************************************************************************)
(* The static script's figure (src/simulator.py).                          *)
(***************************************************************************)
\* Initial sizes.
initial_earth_size == 15
initial_satellite_size == 6

\* Python None inside a button's args (JSON null).
None == [null |-> TRUE]

\* orbit = Orbit.from_classical(Earth, a=Earth.R + alt_perigee, ...)
static_orbit == create_orbit(EarthR + alt_perigee, eccentricity, inclination)

static_trajectory == trajectory_of(static_orbit)

\* The three traces added with fig.add_trace.
static_data(x_vals, y_vals, z_vals) ==
    << [x |-> x_vals, y |-> y_vals, z |-> z_vals, mode |-> "lines",
        line |-> [width |-> 2, color |-> "red"], name |-> "Orbit Path"],
       [x |-> <<0>>, y |-> <<0>>, z |-> <<0>>, mode |-> "markers",
        marker |-> [size |-> initial_earth_size, color |-> "blue"],
        name |-> "Earth"],
       [x |-> <<x_vals[1]>>, y |-> <<y_vals[1]>>, z |-> <<z_vals[1]>>,
        mode |-> "markers",
        marker |-> [size |-> initial_satellite_size, color |-> "green"],
        name |-> "Satellite"] >>

\* frames = [go.Frame(data=[...], name=f"Frame {i}") for i in range(len(x_vals))];
\* frame i of the script is element i + 1 here.
static_frames(x_vals, y_vals, z_vals) ==
    [k \in 1..Len(x_vals) |->
        [data |->
            << [x |-> x_vals, y |-> y_vals, z |-> z_vals, mode |-> "lines",
                line |-> [width |-> 2, color |-> "red"]],
               [x |-> <<0>>, y |-> <<0>>, z |-> <<0>>, mode |-> "markers",
                marker |-> [size |-> initial_earth_size, color |-> "blue"]],
               [x |-> <<x_vals[k]>>, y |-> <<y_vals[k]>>, z |-> <<z_vals[k]>>,
                mode |-> "markers",
                marker |-> [size |-> initial_satellite_size, color |-> "green"]] >>,
         name |-> <<"Frame", k - 1>>]]

\* for size in range(5, 31, 5): one "update" button per Earth size.
earth_size_buttons ==
    [k \in 1..6 |->
        [method |-> "update",
         args   |-> << [marker |-> <<None, [size |-> 5 * k], None>>] >>,
         label  |-> 5 * k]]

\* for size in range(2, 13, 2): one "update" button per satellite size.
satellite_size_buttons ==
    [k \in 1..6 |->
        [method |-> "update",
         args   |-> << [marker |-> <<None, None, [size |-> 2 * k]>>] >>,
         label  |-> 2 * k]]

\* fig after add_trace x 3, fig.frames = frames and fig.update_layout(...).
static_figure ==
    LET x_vals == x_vals_of(static_trajectory.positions)
        y_vals == y_vals_of(static_trajectory.positions)
        z_vals == z_vals_of(static_trajectory.positions)
    IN  [data   |-> static_data(x_vals, y_vals, z_vals),
         frames |-> static_frames(x_vals, y_vals, z_vals),
         layout |-> [title |-> <<"Elliptical Orbit Simulation", eccentricity,
                                 inclination>>,
                     updatemenus |-> <<"Play/Pause", earth_size_buttons,
                                       satellite_size_buttons>>]]

(***************************************************************************)
(* The Dash callback (src/unnamed/part_000).                               *)
(***************************************************************************)
\* Lines 106-130: the three traces of the callback's figure.
dash_data(x_vals, y_vals, z_vals, earth_size, satellite_size) ==
    << [x |-> x_vals, y |-> y_vals, z |-> z_vals, mode |-> "lines",
        line |-> [width |-> 2, color |-> "red"], name |-> "Orbit Path"],
       [x |-> <<0>>, y |-> <<0>>, z |-> <<0>>, mode |-> "markers",
        marker |-> [size |-> earth_size, color |-> "blue"], name |-> "Earth"],
       [x |-> <<x_vals[1]>>, y |-> <<y_vals[1]>>, z |-> <<z_vals[1]>>,
        mode |-> "markers",
        marker |-> [size |-> satellite_size, color |-> "green"],
        name |-> "Satellite"] >>

\* Frames whose marker never leaves the first sample.
dash_frames_first(x_vals, y_vals, z_vals) ==
    [k \in 1..Len(x_vals) |->
        [data |->
            << [x |-> x_vals, y |-> y_vals, z |-> z_vals, mode |-> "lines"],
               [x |-> <<0>>, y |-> <<0>>, z |-> <<0>>, mode |-> "markers"],
               [x |-> <<x_vals[1]>>, y |-> <<y_vals[1]>>, z |-> <<z_vals[1]>>,
                mode |-> "markers"] >>,
         name |-> <<"frame", k - 1>>]]

\* Lines 133-147: frames named f"frame_{i}", traces without marker or line.
dash_frames(x_vals, y_vals, z_vals) ==
    [k \in 1..Len(x_vals) |->
        [data |->
            << [x |-> x_vals, y |-> y_vals, z |-> z_vals, mode |-> "lines"],
               [x |-> <<0>>, y |-> <<0>>, z |-> <<0>>, mode |-> "markers"],
               [x |-> <<x_vals[k]>>, y |-> <<y_vals[k]>>, z |-> <<z_vals[k]>>,
                mode |-> "markers"] >>,
         name |-> <<"frame", k - 1>>]]

\* Lines 106-180: the figure built from the sampled coordinates.
build_figure(sma, x_vals, y_vals, z_vals, earth_size, satellite_size) ==
    [data   |-> dash_data(x_vals, y_vals, z_vals, earth_size, satellite_size),
     frames |-> dash_frames(x_vals, y_vals, z_vals),
     layout |-> [title |-> <<"Elliptical Orbit", sma, default_eccentricity,
                             default_inclination>>,
                 updatemenus |-> <<"Play/Pause">>]]

(***************************************************************************)
(* What the browser does with the figure (Plotly.js).                      *)
(***************************************************************************)
\* A button of method "update" restyles the traces with args[0]: for each
\* attribute, trace i takes the i-th value; a null value deletes the
\* attribute from the trace, any other value replaces it.
restyle_trace(trace, update, i) ==
    LET set == {k \in DOMAIN update : update[k][i] # None}
        del == {k \in DOMAIN update : update[k][i] = None}
    IN  [k \in ((DOMAIN trace) \cup set) \ del |->
            IF k \in set THEN update[k][i] ELSE trace[k]]

plotly_update(data, args) ==
    [i \in 1..Len(data) |-> restyle_trace(data[i], args[1], i)]

\* Attributes whose values are objects; a frame's object is merged into the
\* trace's object key by key, every other attribute replaces the trace's.
ObjectAttributes == {"marker", "line"}

extend_trace(trace, frame_trace) ==
    [k \in (DOMAIN trace) \cup (DOMAIN frame_trace) |->
        IF k \notin DOMAIN frame_trace THEN trace[k]
        ELSE IF k \in ObjectAttributes /\ k \in DOMAIN trace
             THEN [a \in (DOMAIN trace[k]) \cup (DOMAIN frame_trace[k]) |->
                      IF a \in DOMAIN frame_trace[k] THEN frame_trace[k][a]
                      ELSE trace[k][a]]
             ELSE frame_trace[k]]

\* Animating to a frame applies the frame's traces to the displayed traces.
plotly_animate(data, frame) ==
    [i \in 1..Len(data) |->
        IF i <= Len(frame.data) THEN extend_trace(data[i], frame.data[i])
        ELSE data[i]]

(***************************************************************************)
(* Controls.                                                               *)
(***************************************************************************)
\* dcc.Slider(id='sma-slider', min, max, step); value=default_sma.
sma_min == 7000
sma_max == 15000
sma_step == 500

SliderSma == {sma_min + k * sma_step : k \in 0..((sma_max - sma_min) \div sma_step)}

\* dcc.Slider(id='earth-size-slider'): min 5, max 30, step 1, value 15.
earth_slider_min == 5
earth_slider_max == 30
earth_slider_value == 15

\* dcc.Slider(id='satellite-size-slider'): min 2, max 12, step 1, value 6.
satellite_slider_min == 2
satellite_slider_max == 12
satellite_slider_value == 6

\* The slider positions the model moves the two size sliders to.
EarthSizes == {earth_slider_min, earth_slider_value, earth_slider_max}
SatelliteSizes == {satellite_slider_min, satellite_slider_value, satellite_slider_max}

\* A semi-major axis the callback is sent by a request that does not come
\* from the slider (the callback takes whatever number the request carries).
BelowSurfaceSma == 6000

\* The most frames one playback is followed for.
MaxPlayed == 2

\* The slider positions of the concurrent requests: every slider moves
\* between its initial value and its maximum, in any order and back.
ConcurrentSma == {default_sma, sma_max}
ConcurrentEarthSizes == {earth_slider_value, earth_slider_max}
ConcurrentSatelliteSizes == {satellite_slider_value, satellite_slider_max}

\* The worker threads serving the requests, and the most requests one
\* session of concurrent requests is followed for.
MaxInFlight == 2
MaxRequests == 4
Workers == 1..MaxInFlight

\* A callback that takes the semi-major axis from state shared by all
\* requests (the latest slider value) instead of from its argument.
sample_shared(sma) ==
    trajectory_of(create_orbit(sma_slider, default_eccentricity, default_inclination))

\* Lines 97-102 for every semi-major axis a request of the model carries,
\* evaluated once.
Sampled ==
    [a \in SliderSma \cup {default_sma, BelowSurfaceSma} |->
        trajectory_of(create_orbit(a, default_eccentricity, default_inclination))]

\* Lines 97-102 with the callback's own argument.
sample(sma) == Sampled[sma]

\* A figure whose x coordinates are offset by the Earth marker size.
figure_of_offset(sma, positions, earth_size, satellite_size) ==
    build_figure(sma, [i \in 1..Len(positions) |-> positions[i][1] + earth_size],
                 y_vals_of(positions), z_vals_of(positions),
                 earth_size, satellite_size)

\* Lines 106-180 on the coordinates of line 103.
figure_of(sma, positions, earth_size, satellite_size) ==
    build_figure(sma, x_vals_of(positions), y_vals_of(positions),
                 z_vals_of(positions), earth_size, satellite_size)

\* def update_orbit(sma, earth_size, satellite_size), lines 95-180.
update_orbit(sma, earth_size, satellite_size) ==
    figure_of(sma, sample(sma).positions, earth_size, satellite_size)

NoTrajectory == [orbit |-> <<>>, period |-> 0, time_span |-> <<>>, positions |-> <<>>]
NoFigure == [data |-> <<>>, frames |-> <<>>, layout |-> [title |-> <<>>, updatemenus |-> <<>>]]
Idle == [pc |-> "idle"]

\* simulator.py has run to fig.show(): the figure is displayed.
InitStatic ==
    /\ program = "static"
    /\ sma_slider = 0 /\ earth_size_slider = 0 /\ satellite_size_slider = 0
    /\ trajectory = static_trajectory
    /\ graph = static_figure
    /\ played = 0
    /\ earth_active = 1 /\ satellite_active = 1
    /\ inv = [w \in Workers |-> Idle]
    /\ posted = 0

\* The Dash layout is served: sliders at their values, the graph still empty.
InitDash ==
    /\ program = "dash"
    /\ sma_slider = default_sma
    /\ earth_size_slider = earth_slider_value
    /\ satellite_size_slider = satellite_slider_value
    /\ trajectory = NoTrajectory
    /\ graph = NoFigure
    /\ played = 0
    /\ earth_active = 0 /\ satellite_active = 0
    /\ inv = [w \in Workers |-> Idle]
    /\ posted = 0

Init == InitStatic \/ InitDash

(***************************************************************************)
(* The static page.                                                        *)
(***************************************************************************)
\* Choosing button k of the Earth-size dropdown.
EarthSizeButton(k) ==
    /\ program = "static"
    /\ graph' = [graph EXCEPT !.data = plotly_update(@, earth_size_buttons[k].args)]
    /\ earth_active' = k
    /\ UNCHANGED <<program, sliders, trajectory, played, satellite_active, server>>

\* Choosing button k of the satellite-size dropdown.
SatelliteSizeButton(k) ==
    /\ program = "static"
    /\ graph' = [graph EXCEPT !.data = plotly_update(@, satellite_size_buttons[k].args)]
    /\ satellite_active' = k
    /\ UNCHANGED <<program, sliders, trajectory, played, earth_active, server>>

\* Play ("fromcurrent"): the playback applies its next frame.  Pause stops
\* the playback where it is and changes nothing displayed.
PlayFrame ==
    /\ graph # NoFigure
    /\ played < MaxPlayed
    /\ played < Len(graph.frames)
    /\ graph' = [graph EXCEPT !.data = plotly_animate(@, graph.frames[played + 1])]
    /\ played' = played + 1
    /\ UNCHANGED <<program, sliders, trajectory, menus, server>>

(***************************************************************************)
(* The Dash page, one request at a time.                                   *)
(***************************************************************************)
\* The callback runs to completion and the graph shows its figure.
Callback(sma, earth_size, satellite_size) ==
    /\ program = "dash"
    /\ sma_slider' = sma
    /\ earth_size_slider' = earth_size
    /\ satellite_size_slider' = satellite_size
    /\ trajectory' = sample(sma)
    /\ graph' = figure_of(sma, trajectory'.positions, earth_size, satellite_size)
    /\ played' = 0
    /\ UNCHANGED <<program, menus, server>>

\* Page load: Dash calls the callback with the sliders' initial values.
PageLoad ==
    /\ graph = NoFigure
    /\ Callback(sma_slider, earth_size_slider, satellite_size_slider)

SetSma(v) ==
    /\ graph # NoFigure
    /\ v # sma_slider
    /\ Callback(v, earth_size_slider, satellite_size_slider)

SetEarthSize(v) ==
    /\ graph # NoFigure
    /\ v # earth_size_slider
    /\ Callback(sma_slider, v, satellite_size_slider)

SetSatelliteSize(v) ==
    /\ graph # NoFigure
    /\ v # satellite_size_slider
    /\ Callback(sma_slider, earth_size_slider, v)

\* A request for the callback carrying a value the slider cannot deliver.
DirectRequest ==
    /\ graph # NoFigure
    /\ Callback(BelowSurfaceSma, earth_size_slider, satellite_size_slider)

Next ==
    \/ \E k \in DOMAIN earth_size_buttons : EarthSizeButton(k)
    \/ \E k \in DOMAIN satellite_size_buttons : SatelliteSizeButton(k)
    \/ PlayFrame
    \/ PageLoad
    \/ \E v \in SliderSma : SetSma(v)
    \/ \E v \in EarthSizes : SetEarthSize(v)
    \/ \E v \in SatelliteSizes : SetSatelliteSize(v)
    \/ DirectRequest

Spec == Init /\ [][Next]_vars

(***************************************************************************)
(* The Dash page served by a threaded server: every slider change posts a  *)
(* request, and the requests' callbacks run concurrently, one per worker.  *)
(***************************************************************************)
\* A request carrying the three values is posted; a free worker takes it
\* (the threads are interchangeable: the first free one).
Request(w, sma, earth_size, satellite_size) ==
    /\ program = "dash"
    /\ inv[w] = Idle
    /\ \A u \in Workers : u < w => inv[u] # Idle
    /\ posted < MaxRequests
    /\ sma_slider' = sma
    /\ earth_size_slider' = earth_size
    /\ satellite_size_slider' = satellite_size
    /\ inv' = [inv EXCEPT ![w] = [pc |-> "called", sma |-> sma,
                                  earth_size |-> earth_size,
                                  satellite_size |-> satellite_size]]
    /\ posted' = posted + 1
    /\ UNCHANGED <<program, trajectory, graph, played, menus>>

\* Page load: the first request carries the sliders' initial values.
RequestPageLoad(w) ==
    /\ posted = 0
    /\ Request(w, sma_slider, earth_size_slider, satellite_size_slider)

\* Moving one slider posts its new value with the other two's current ones.
RequestSma(w, v) ==
    /\ posted > 0
    /\ v # sma_slider
    /\ Request(w, v, earth_size_slider, satellite_size_slider)

RequestEarthSize(w, v) ==
    /\ posted > 0
    /\ v # earth_size_slider
    /\ Request(w, sma_slider, v, satellite_size_slider)

RequestSatelliteSize(w, v) ==
    /\ posted > 0
    /\ v # satellite_size_slider
    /\ Request(w, sma_slider, earth_size_slider, v)

\* Lines 97-103 in worker w: orbit, period, time_span, propagated_positions
\* become locals of the invocation.
Propagate(w) ==
    /\ inv[w].pc = "called"
    /\ inv' = [inv EXCEPT ![w] =
                 [pc |-> "sampled", sma |-> @.sma, earth_size |-> @.earth_size,
                  satellite_size |-> @.satellite_size,
                  trajectory |-> sample(@.sma)]]
    /\ UNCHANGED <<program, sliders, trajectory, graph, played, menus, posted>>

\* Lines 106-180 in worker w: fig is built from the invocation's locals and
\* its two size arguments and returned, and the graph displays it.
Return(w) ==
    /\ inv[w].pc = "sampled"
    /\ graph' = figure_of(inv[w].sma, inv[w].trajectory.positions,
                          inv[w].earth_size, inv[w].satellite_size)
    /\ trajectory' = inv[w].trajectory
    /\ played' = 0
    /\ inv' = [inv EXCEPT ![w] = Idle]
    /\ UNCHANGED <<program, sliders, menus, posted>>

NextConcurrent ==
    \/ \E w \in Workers : RequestPageLoad(w)
    \/ \E w \in Workers, v \in ConcurrentSma : RequestSma(w, v)
    \/ \E w \in Workers, v \in ConcurrentEarthSizes : RequestEarthSize(w, v)
    \/ \E w \in Workers, v \in ConcurrentSatelliteSizes :
          RequestSatelliteSize(w, v)
    \/ \E w \in Workers : Propagate(w)
    \/ \E w \in Workers : Return(w)

SpecConcurrent == Init /\ [][NextConcurrent]_vars

(***************************************************************************)
(* Properties.                                                             *)
(***************************************************************************)
NormSq(r) == r[1] * r[1] + r[2] * r[2] + r[3] * r[3]

Coordinates(trace) == <<trace.x, trace.y, trace.z>>

\* The marker size a trace asks for; 0 when the trace leaves it to the
\* renderer's default.
DisplayedSize(trace) ==
    IF "marker" \in DOMAIN trace /\ "size" \in DOMAIN trace.marker
    THEN trace.marker.size ELSE 0

\* C1: for valid elements the sampling yields exactly 100 (offset, position)
\* pairs, the offsets strictly increasing, the first 0 and the last the
\* orbital period.
C1_SampleShape ==
    (trajectory # NoTrajectory /\ trajectory.orbit.a > EarthR) =>
        LET ts == trajectory.time_span
        IN  /\ Len(ts) = 100
            /\ Len(trajectory.positions) = 100
            /\ ts[1] = 0
            /\ ts[Len(ts)] = trajectory.period * 1000
            /\ \A i \in 1..(Len(ts) - 1) : ts[i] < ts[i + 1]

C1_Witness ==
    /\ program = "dash"
    /\ trajectory # NoTrajectory
    /\ trajectory.orbit.a = sma_max
    /\ trajectory.time_span[2] > 0
    /\ trajectory.time_span[NumSamples] = trajectory.period * 1000

\* Elements the specification calls invalid.
InvalidElements(orbit, sample_count) ==
    \/ orbit.a <= EarthR
    \/ orbit.ecc < 0
    \/ orbit.ecc >= 1000
    \/ sample_count < 2

\* C2: invalid elements (semi-major axis <= body radius, eccentricity
\* outside [0,1), fewer than 2 samples) produce no trajectory and no figure.
C2_InvalidElementsRejected ==
    /\ trajectory # NoTrajectory =>
          ~InvalidElements(trajectory.orbit, Len(trajectory.time_span))
    /\ (program = "dash" /\ graph # NoFigure) => graph.layout.title[2] > EarthR

\* C3: every orbit sampled by the static script or from a slider value has
\* a > body radius, eccentricity in [0,1), and stays outside the body:
\* perigee distance a(1-e) and every sampled position beyond the radius.
C3_OrbitClearsBody ==
    (/\ trajectory # NoTrajectory
     /\ program = "static" \/ trajectory.orbit.a \in sma_min..sma_max) =>
        /\ trajectory.orbit.a > EarthR
        /\ trajectory.orbit.ecc >= 0
        /\ trajectory.orbit.ecc < 1000
        /\ trajectory.orbit.a * (1000 - trajectory.orbit.ecc) > EarthR * 1000
        /\ \A i \in 1..Len(trajectory.positions) :
              NormSq(trajectory.positions[i]) > EarthR * EarthR

\* C4: the offsets are evenly spaced (to the millisecond) from 0 to the
\* period inclusive, and the last sampled position is the first one.
C4_ClosedLoop ==
    trajectory # NoTrajectory =>
        LET ts == trajectory.time_span
            ps == trajectory.positions
            n  == Len(ts)
        IN  /\ ts[1] = 0
            /\ ts[n] = trajectory.period * 1000
            /\ \A i \in 1..(n - 1) :
                  Abs((ts[i + 1] - ts[i]) - (ts[2] - ts[1])) <= 1
            /\ ps[n] = ps[1]

C4_Witness ==
    /\ trajectory # NoTrajectory
    /\ trajectory.orbit.a = sma_min
    /\ trajectory.positions[NumSamples] = trajectory.positions[1]
    /\ trajectory.positions[NumSamples \div 2] # trajectory.positions[1]

\* C5: one frame per sample, in order; frame i holds the marker at sample i
\* and the same path (all samples) and central body (origin) as every other
\* frame; before any playback the displayed marker is at sample 0.
C5_FramesFollowSamples ==
    graph # NoFigure =>
        LET ps == trajectory.positions
            fr == graph.frames
        IN  /\ Len(fr) = Len(ps)
            /\ \A k \in 1..Len(fr) :
                  /\ fr[k].name[2] = k - 1
                  /\ Coordinates(fr[k].data[3]) =
                        << <<ps[k][1]>>, <<ps[k][2]>>, <<ps[k][3]>> >>
                  /\ fr[k].data[1] = fr[1].data[1]
                  /\ fr[k].data[2] = fr[1].data[2]
            /\ Coordinates(fr[1].data[1]) =
                  <<x_vals_of(ps), y_vals_of(ps), z_vals_of(ps)>>
            /\ Coordinates(fr[1].data[2]) = << <<0>>, <<0>>, <<0>> >>
            /\ played = 0 =>
                  Coordinates(graph.data[3]) = Coordinates(fr[1].data[3])

C5_Witness ==
    /\ program = "dash"
    /\ graph # NoFigure
    /\ sma_slider = sma_max
    /\ Len(graph.frames) = NumSamples
    /\ graph.frames[NumSamples \div 2].data[3].x
          = <<trajectory.positions[NumSamples \div 2][1]>>
    /\ graph.frames[NumSamples \div 2].data[3].x # graph.frames[1].data[3].x

\* update_orbit called on its own, once for every triple of arguments a
\* concurrent request can carry.
IsolatedCall ==
    [sma \in ConcurrentSma |->
        [earth_size \in ConcurrentEarthSizes |->
            [satellite_size \in ConcurrentSatelliteSizes |->
                update_orbit(sma, earth_size, satellite_size)]]]

\* C6: whatever requests came before and however the running callbacks
\* interleave, the figure an invocation returns (its path and frames are the
\* trajectory samples) is the figure of an isolated call with the
\* invocation's own three arguments.
C6_FigureOfArgumentsOnly ==
    [][\A w \in Workers :
          (inv[w].pc = "sampled" /\ inv'[w] = Idle) =>
              graph' = IsolatedCall[inv[w].sma][inv[w].earth_size]
                                   [inv[w].satellite_size]]_vars

C6_Witness ==
    /\ graph # NoFigure
    /\ graph.data[3].marker.size = satellite_slider_max
    /\ satellite_size_slider = satellite_slider_value
    /\ graph.layout.title[2] # sma_slider
    /\ \E v \in Workers :
          /\ inv[v].pc = "sampled"
          /\ inv[v].sma # graph.layout.title[2]
          /\ inv[v].satellite_size # graph.data[3].marker.size

\* C7: with the same semi-major axis, other Earth and satellite sizes give
\* the same path and the same marker position in every frame as the default
\* sizes; only the two marker sizes follow the size sliders.
C7_SizesLeaveTrajectory ==
    (program = "dash" /\ graph # NoFigure) =>
        LET ref == update_orbit(sma_slider, earth_slider_value,
                                satellite_slider_value)
        IN  /\ graph.frames = ref.frames
            /\ graph.layout = ref.layout
            /\ graph.data[1] = ref.data[1]
            /\ graph.data[2].marker.size = earth_size_slider
            /\ graph.data[3].marker.size = satellite_size_slider
            /\ [graph.data[2] EXCEPT !.marker.size = earth_slider_value]
                  = ref.data[2]
            /\ played = 0 =>
                  [graph.data[3] EXCEPT !.marker.size = satellite_slider_value]
                     = ref.data[3]

C7_Witness ==
    /\ program = "dash"
    /\ graph # NoFigure
    /\ earth_size_slider = earth_slider_max
    /\ satellite_size_slider = satellite_slider_max
    /\ graph.data[2].marker.size = earth_slider_max
    /\ graph.data[3].marker.size = satellite_slider_max

\* C8: doubling the semi-major axis multiplies the period by 2^1.5 = 2.828,
\* to 0.1 %, for every sampled semi-major axis whose double can be sampled.
C8_KeplerThirdLaw ==
    (/\ program = "dash"
     /\ trajectory # NoTrajectory
     /\ 2 * trajectory.orbit.a \in DOMAIN Sampled) =>
        Abs(1000 * sample(2 * trajectory.orbit.a).period - 2828 * trajectory.period)
            <= 3 * trajectory.period

C8_Witness ==
    /\ program = "dash"
    /\ trajectory # NoTrajectory
    /\ trajectory.orbit.a = sma_min + sma_step
    /\ 2 * trajectory.orbit.a = sma_max
    /\ sample(sma_max).period > 2 * trajectory.period

\* C9: in the static script an Earth-size button changes the Earth trace
\* only and a satellite-size button the satellite trace only.
C9_ButtonTouchesOneTrace ==
    [][/\ \A k \in DOMAIN earth_size_buttons :
             EarthSizeButton(k) =>
                 /\ graph'.data[1] = graph.data[1]
                 /\ graph'.data[3] = graph.data[3]
       /\ \A k \in DOMAIN satellite_size_buttons :
             SatelliteSizeButton(k) =>
                 /\ graph'.data[1] = graph.data[1]
                 /\ graph'.data[2] = graph.data[2]]_vars

\* The marker of trace i is the one the user's last size choice asked for.
ChosenSizeShown(i) ==
    /\ "marker" \in DOMAIN graph.data[i]
    /\ IF program = "static"
       THEN graph.data[i].marker =
               IF i = 2 THEN [size |-> earth_size_buttons[earth_active].label]
               ELSE [size |-> satellite_size_buttons[satellite_active].label]
       ELSE graph.data[i].marker.size =
               IF i = 2 THEN earth_size_slider ELSE satellite_size_slider

\* C10: playing frames never changes a marker size the user has chosen.
C10_ChosenSizeSurvivesPlayback ==
    [][PlayFrame =>
          \A i \in {2, 3} :
              ChosenSizeShown(i) =>
                  DisplayedSize(graph'.data[i]) = DisplayedSize(graph.data[i])]_vars
====
